---- MODULE Spec2Model ----
(***************************************************************************)
(* Model of the voxel world store of swarm-minecraft                       *)
(* (src/src/store/gameStore.ts).                                           *)
(*                                                                         *)
(* The store is a zustand store holding `chunks` (a Map from chunk key to  *)
(* Uint8Array), `seed` and `playerPosition`.  Maps and typed arrays are    *)
(* JavaScript objects with identity, so the model keeps two heaps:         *)
(*   arrays : the Uint8Array objects ever allocated, by object id          *)
(*   maps   : the Map objects ever allocated, by object id                 *)
(* and `chunks` is the id of the Map the store currently publishes.        *)
(* A Uint8Array is a record [len, cells] where cells holds the non-zero    *)
(* elements only (a fresh typed array is zero-filled).                     *)
(***************************************************************************)
EXTENDS Integers, Sequences, FiniteSets, TLC

VARIABLES
    arrays,          \* heap of Uint8Array objects: Seq of [len, cells]
    maps,            \* heap of Map objects: Seq of [key -> array id]
    chunks,          \* state.chunks: id of the current Map object
    seed,            \* state.seed
    playerPosition,  \* state.playerPosition
    last,            \* the call that returned last: operation and arguments
    ret,             \* value returned by the last call (<<>> is undefined)
    cw,              \* coordinate conversion: world coordinate under test
    cchunk,          \* coordinate conversion: worldToChunkX(cw) / worldToChunkZ(cw)
    clocal,          \* coordinate conversion: worldToLocal(cw)
    cpc,             \* coordinate conversion: "input" or "done"
    terrain,         \* one getTerrainHeight call: arguments, noise samples, result
    slots,           \* inventory: state.slots, slot i at index i (0..35)
    selectedSlot,    \* inventory: state.selectedSlot
    isOpen,          \* inventory: state.isOpen
    invLast,         \* inventory: the call that returned last
    invRet,          \* inventory: value returned by the last call
    invCalls,        \* inventory: number of calls made
    hotSlots,        \* 9-slot inventory: state.slots, slot i at index i (0..8)
    hotbar,          \* 9-slot inventory: state.hotbar
    hotSelectedSlot, \* 9-slot inventory: state.selectedSlot
    hotLast,         \* 9-slot inventory: the call that returned last
    hotRet,          \* 9-slot inventory: value returned by the last call
    hotCalls,        \* 9-slot inventory: number of calls made
    barSlots,        \* indexed hotbar: state.slots, slot i at index i (0..8)
    barSelectedSlot, \* indexed hotbar: state.selectedSlot
    barLast          \* indexed hotbar: the call that returned last

vars == <<arrays, maps, chunks, seed, playerPosition, last, ret,
          cw, cchunk, clocal, cpc, terrain,
          slots, selectedSlot, isOpen, invLast, invRet, invCalls,
          hotSlots, hotbar, hotSelectedSlot, hotLast, hotRet, hotCalls,
          barSlots, barSelectedSlot, barLast>>

storeVars == <<arrays, maps, chunks, seed, playerPosition, last, ret>>
coordVars == <<cw, cchunk, clocal, cpc>>
terrainVars == <<terrain>>
inventoryVars == <<slots, selectedSlot, isOpen, invLast, invRet, invCalls>>
hotbarVars == <<hotSlots, hotbar, hotSelectedSlot, hotLast, hotRet, hotCalls>>
barVars == <<barSlots, barSelectedSlot, barLast>>

----------------------------------------------------------------------------
(* Program constants *)

CHUNK_SIZE == 16

CHUNK_HEIGHT == 256

(* Bounds of the model *)

\* number of store updates (calls of zustand's set on chunks) explored
MaxWrites == 2

\* world coordinates explored by the coordinate conversion are -MaxCoord..MaxCoord
MaxCoord == 50

\* inputs of the store operations
XS == {-1, 0}
ZS == {-17, 0}
YS == {-1, 0, 255, 256}
TypeInputs == {0, 255, 256}
ChunkXS == {-1, 0}
ChunkZS == {0}
\* Date.now() at creation; TLC integers are 32 bits wide, so small stand-ins
Seeds == {2026}
Positions == {<<1, 70, -3>>}

----------------------------------------------------------------------------
(* JavaScript values *)

\* undefined, and a defined result v, as returned to the caller
Undefined == <<>>
Some(v) == <<v>>

\* the empty function
EmptyFun == [i \in {} |-> 0]

\* ToUint8 conversion applied by a store into a Uint8Array element
ToUint8(v) == v % 256

\* new Uint8Array(n): n zero-filled elements
NewUint8Array(n) == [len |-> n, cells |-> EmptyFun]

\* new Uint8Array(src): an element-wise copy of a typed array
CopyUint8Array(src) == [len |-> src.len, cells |-> src.cells]

\* a[i]: undefined outside 0..len-1
TypedArrayGet(a, i) ==
    IF i >= 0 /\ i < a.len
    THEN Some(IF i \in DOMAIN a.cells THEN a.cells[i] ELSE 0)
    ELSE Undefined

\* a[i] = v: ignored outside 0..len-1, converted with ToUint8 inside
TypedArraySet(a, i, v) ==
    IF i >= 0 /\ i < a.len
    THEN LET b == ToUint8(v)
             dom == IF b = 0 THEN DOMAIN a.cells \ {i} ELSE DOMAIN a.cells \cup {i}
         IN [len |-> a.len,
             cells |-> [j \in dom |-> IF j = i THEN b ELSE a.cells[j]]]
    ELSE a

\* the remainder operator % of JavaScript (sign of the dividend)
JsRem(a, b) == IF a >= 0 THEN a % b ELSE -((-a) % b)

\* Math.floor(a / b) for integer a and b > 0
MathFloorDiv(a, b) == a \div b

\* template-literal conversion of an integer to its decimal string
DigitChars == <<"0", "1", "2", "3", "4", "5", "6", "7", "8", "9">>

RECURSIVE NatToString(_)
NatToString(n) ==
    IF n < 10 THEN <<DigitChars[n + 1]>>
    ELSE NatToString(n \div 10) \o <<DigitChars[(n % 10) + 1]>>

NumberToString(n) == IF n < 0 THEN <<"-">> \o NatToString(-n) ELSE NatToString(n)

\* Map.prototype.set on a copy of m
MapSet(m, k, v) == [j \in DOMAIN m \cup {k} |-> IF j = k THEN v ELSE m[j]]

----------------------------------------------------------------------------
(* Helpers of gameStore.ts *)

\* a variant of getChunkKey that joins the two numbers without a separator
getChunkKeyJoined(chunkX, chunkZ) ==
    NumberToString(chunkX) \o NumberToString(chunkZ)

getChunkKey(chunkX, chunkZ) ==
    NumberToString(chunkX) \o <<",">> \o NumberToString(chunkZ)

\* a variant of worldToChunkX that truncates toward zero
worldToChunkXTrunc(worldX) ==
    IF worldX >= 0 THEN worldX \div CHUNK_SIZE ELSE -((-worldX) \div CHUNK_SIZE)

worldToChunkX(worldX) == MathFloorDiv(worldX, CHUNK_SIZE)

worldToChunkZ(worldZ) == MathFloorDiv(worldZ, CHUNK_SIZE)

\* a variant of worldToLocal that keeps the sign of the remainder
worldToLocalRem(worldCoord) == JsRem(worldCoord, CHUNK_SIZE)

worldToLocal(worldCoord) ==
    LET local == JsRem(worldCoord, CHUNK_SIZE)
    IN IF local < 0 THEN local + CHUNK_SIZE ELSE local

\* a variant of getBlockIndex whose layers are one row apart
getBlockIndexNarrow(localX, y, localZ) ==
    localX + localZ * CHUNK_SIZE + y * CHUNK_SIZE

\* a variant of getBlockIndex with the horizontal axes exchanged
getBlockIndexSwapped(localX, y, localZ) ==
    localZ + localX * CHUNK_SIZE + y * CHUNK_SIZE * CHUNK_SIZE

getBlockIndex(localX, y, localZ) ==
    localX + localZ * CHUNK_SIZE + y * CHUNK_SIZE * CHUNK_SIZE

\* a variant of createEmptyChunkData that allocates one layer only
createEmptyChunkDataLayer == NewUint8Array(CHUNK_SIZE * CHUNK_SIZE)

createEmptyChunkData == NewUint8Array(CHUNK_SIZE * CHUNK_SIZE * CHUNK_HEIGHT)

----------------------------------------------------------------------------
(* The store operations, as functions of the current heap.  Each returns    *)
(* the heap after the call, the value returned and the error thrown        *)
(* ("" when the call returns normally).                                    *)

Outcome(a, m, c, r) == [arrays |-> a, maps |-> m, chunks |-> c, ret |-> r, error |-> ""]

\* a variant of addChunk that starts from an empty Map instead of a copy of
\* state.chunks
addChunkFresh(chunkX, chunkZ, data) ==
    LET key == getChunkKey(chunkX, chunkZ)
        newChunks == MapSet(EmptyFun, key, data)
    IN Outcome(arrays, Append(maps, newChunks), Len(maps) + 1, Undefined)

\* addChunk(chunkX, chunkZ, data), data being the array object with id `data`
addChunk(chunkX, chunkZ, data) ==
    LET key == getChunkKey(chunkX, chunkZ)
        newChunks == MapSet(maps[chunks], key, data)
    IN Outcome(arrays, Append(maps, newChunks), Len(maps) + 1, Undefined)

\* a variant of getBlock that creates the chunk it misses
getBlockMaterialize(x, y, z) ==
    IF y < 0 \/ y >= CHUNK_HEIGHT
    THEN Outcome(arrays, maps, chunks, Undefined)
    ELSE LET chunkX == worldToChunkX(x)
             chunkZ == worldToChunkZ(z)
             key == getChunkKey(chunkX, chunkZ)
         IN IF key \notin DOMAIN maps[chunks]
            THEN Outcome(Append(arrays, createEmptyChunkData),
                         Append(maps, MapSet(maps[chunks], key, Len(arrays) + 1)),
                         Len(maps) + 1, Undefined)
            ELSE LET chunkData == arrays[maps[chunks][key]]
                     localX == worldToLocal(x)
                     localZ == worldToLocal(z)
                     index == getBlockIndex(localX, y, localZ)
                 IN Outcome(arrays, maps, chunks, TypedArrayGet(chunkData, index))

getBlock(x, y, z) ==
    IF y < 0 \/ y >= CHUNK_HEIGHT
    THEN Outcome(arrays, maps, chunks, Undefined)
    ELSE LET chunkX == worldToChunkX(x)
             chunkZ == worldToChunkZ(z)
             key == getChunkKey(chunkX, chunkZ)
         IN IF key \notin DOMAIN maps[chunks]
            THEN Outcome(arrays, maps, chunks, Undefined)
            ELSE LET chunkData == arrays[maps[chunks][key]]
                     localX == worldToLocal(x)
                     localZ == worldToLocal(z)
                     index == getBlockIndex(localX, y, localZ)
                 IN Outcome(arrays, maps, chunks, TypedArrayGet(chunkData, index))

\* a variant of the update of setBlock that writes into the stored array
\* instead of a clone of it
setBlockUpdateInPlace(x, y, z, type) ==
    LET chunkX == worldToChunkX(x)
        chunkZ == worldToChunkZ(z)
        key == getChunkKey(chunkX, chunkZ)
        old == maps[chunks]
        localX == worldToLocal(x)
        localZ == worldToLocal(z)
        index == getBlockIndex(localX, y, localZ)
    IN IF key \notin DOMAIN old
       THEN Outcome(Append(arrays, TypedArraySet(createEmptyChunkData, index, type)),
                    Append(maps, MapSet(old, key, Len(arrays) + 1)),
                    Len(maps) + 1, Undefined)
       ELSE Outcome([arrays EXCEPT ![old[key]] = TypedArraySet(@, index, type)],
                    Append(maps, old), Len(maps) + 1, Undefined)

\* a variant of the update of setBlock that starts the target chunk from an
\* empty array whether or not the chunk exists
setBlockUpdateNoClone(x, y, z, type) ==
    LET chunkX == worldToChunkX(x)
        chunkZ == worldToChunkZ(z)
        key == getChunkKey(chunkX, chunkZ)
        localX == worldToLocal(x)
        localZ == worldToLocal(z)
        index == getBlockIndex(localX, y, localZ)
    IN Outcome(Append(arrays, TypedArraySet(createEmptyChunkData, index, type)),
               Append(maps, MapSet(maps[chunks], key, Len(arrays) + 1)),
               Len(maps) + 1, Undefined)

\* the function setBlock passes to set(): a new Map, and a new array for the
\* target chunk (empty, or a clone of the stored one) with the block written
setBlockUpdate(x, y, z, type) ==
    LET chunkX == worldToChunkX(x)
        chunkZ == worldToChunkZ(z)
        key == getChunkKey(chunkX, chunkZ)
        old == maps[chunks]
        fresh == IF key \notin DOMAIN old
                 THEN createEmptyChunkData
                 ELSE CopyUint8Array(arrays[old[key]])
        id == Len(arrays) + 1
        newChunks == MapSet(old, key, id)
        localX == worldToLocal(x)
        localZ == worldToLocal(z)
        index == getBlockIndex(localX, y, localZ)
        chunkData == TypedArraySet(fresh, index, type)
    IN Outcome(Append(arrays, chunkData), Append(maps, newChunks),
               Len(maps) + 1, Undefined)

\* a variant of setBlock whose upper bound check is off by one
setBlockOffByOne(x, y, z, type) ==
    IF y < 0 \/ y > CHUNK_HEIGHT
    THEN Outcome(arrays, maps, chunks, Undefined)
    ELSE setBlockUpdate(x, y, z, type)

setBlock(x, y, z, type) ==
    IF y < 0 \/ y >= CHUNK_HEIGHT
    THEN Outcome(arrays, maps, chunks, Undefined)
    ELSE setBlockUpdate(x, y, z, type)

\* a variant of removeBlock that leaves an ungenerated area alone
removeBlockIfPresent(x, y, z) ==
    IF getChunkKey(worldToChunkX(x), worldToChunkZ(z)) \in DOMAIN maps[chunks]
    THEN setBlock(x, y, z, 0)
    ELSE Outcome(arrays, maps, chunks, Undefined)

removeBlock(x, y, z) == setBlock(x, y, z, 0)

\* a variant of setPlayerPosition that also starts a new world
setPlayerPositionReset(position) ==
    [playerPosition |-> position, seed |-> 0, chunks |-> 1]

\* the partial state setPlayerPosition passes to set()
setPlayerPosition(position) == [playerPosition |-> position]

----------------------------------------------------------------------------
(* Arrays a caller can build and hand to addChunk *)

\* a chunk of the right shape with two blocks in it, at local (15, 0, 0)
\* and at local (0, 255, 0)
FullData ==
    [len |-> CHUNK_SIZE * CHUNK_SIZE * CHUNK_HEIGHT,
     cells |-> (15 :> 3) @@ (65280 :> 9)]

\* arrays of a wrong length: four elements, and one element too many
ShortData == [len |-> 4, cells |-> (0 :> 5) @@ (3 :> 8)]

LongData ==
    [len |-> CHUNK_SIZE * CHUNK_SIZE * CHUNK_HEIGHT + 1,
     cells |-> (0 :> 4)]

DataInputs == {FullData, ShortData, LongData}

----------------------------------------------------------------------------
(* The inventory store of 36 slots.  state.slots is a function on          *)
(* 0 .. TOTAL_SLOTS - 1, slot i of the array at index i; a slot is a       *)
(* record [type, count], the empty slot being [type |-> "", count |-> 0].  *)

MAX_STACK_SIZE == 64

TOTAL_SLOTS == 36

BLOCK_TYPES ==
    [GRASS |-> "grass", DIRT |-> "dirt", STONE |-> "stone", WOOD |-> "wood",
     LEAVES |-> "leaves", SAND |-> "sand", WATER |-> "water",
     COBBLESTONE |-> "cobblestone", PLANKS |-> "planks"]

\* INITIAL_HOTBAR[i] of the source is the element i + 1 of the sequence
INITIAL_HOTBAR ==
    << [type |-> BLOCK_TYPES.GRASS, count |-> 64],
       [type |-> BLOCK_TYPES.DIRT, count |-> 64],
       [type |-> BLOCK_TYPES.STONE, count |-> 64],
       [type |-> BLOCK_TYPES.WOOD, count |-> 64],
       [type |-> BLOCK_TYPES.PLANKS, count |-> 64],
       [type |-> BLOCK_TYPES.COBBLESTONE, count |-> 64],
       [type |-> BLOCK_TYPES.SAND, count |-> 64],
       [type |-> BLOCK_TYPES.LEAVES, count |-> 32],
       [type |-> BLOCK_TYPES.WATER, count |-> 16] >>

MathMin(a, b) == IF a < b THEN a ELSE b

\* array.length
ArrayLength(a) == Cardinality(DOMAIN a)

createEmptySlots ==
    [i \in 0..(TOTAL_SLOTS - 1) |->
        IF i + 1 \in DOMAIN INITIAL_HOTBAR
        THEN [type |-> INITIAL_HOTBAR[i + 1].type, count |-> INITIAL_HOTBAR[i + 1].count]
        ELSE [type |-> "", count |-> 0]]

\* the first loop of addItem, from index i on: stack onto the slots of the
\* same type that are not full
RECURSIVE StackLoop(_, _, _, _)
StackLoop(newSlots, type, remaining, i) ==
    IF ~(i < ArrayLength(newSlots) /\ remaining > 0)
    THEN [slots |-> newSlots, remaining |-> remaining]
    ELSE LET slot == newSlots[i]
         IN IF slot.type = type /\ slot.count < MAX_STACK_SIZE
            THEN LET canAdd == MathMin(remaining, MAX_STACK_SIZE - slot.count)
                 IN StackLoop([newSlots EXCEPT ![i] =
                                  [type |-> slot.type, count |-> slot.count + canAdd]],
                              type, remaining - canAdd, i + 1)
            ELSE StackLoop(newSlots, type, remaining, i + 1)

\* a variant of the second loop of addItem that puts all that remains into
\* the first slot of count 0
RECURSIVE FillLoopUncapped(_, _, _, _)
FillLoopUncapped(newSlots, type, remaining, i) ==
    IF ~(i < ArrayLength(newSlots) /\ remaining > 0)
    THEN [slots |-> newSlots, remaining |-> remaining]
    ELSE LET slot == newSlots[i]
         IN IF slot.count = 0
            THEN FillLoopUncapped([newSlots EXCEPT ![i] = [type |-> type, count |-> remaining]],
                                  type, 0, i + 1)
            ELSE FillLoopUncapped(newSlots, type, remaining, i + 1)

\* the second loop of addItem, from index i on: fill the slots of count 0
RECURSIVE FillLoop(_, _, _, _)
FillLoop(newSlots, type, remaining, i) ==
    IF ~(i < ArrayLength(newSlots) /\ remaining > 0)
    THEN [slots |-> newSlots, remaining |-> remaining]
    ELSE LET slot == newSlots[i]
         IN IF slot.count = 0
            THEN LET canAdd == MathMin(remaining, MAX_STACK_SIZE)
                 IN FillLoop([newSlots EXCEPT ![i] = [type |-> type, count |-> canAdd]],
                             type, remaining - canAdd, i + 1)
            ELSE FillLoop(newSlots, type, remaining, i + 1)

\* addItem(type, count): the slots after the call and the value returned
addItem(type, count) ==
    LET stacked == StackLoop(slots, type, count, 0)
        filled == FillLoop(stacked.slots, type, stacked.remaining, 0)
    IN IF filled.remaining < count
       THEN [slots |-> filled.slots, ret |-> TRUE]
       ELSE [slots |-> slots, ret |-> FALSE]

\* a variant of removeItem that leaves the type of a slot it empties
removeItemKeepType(slotIndex, count) ==
    IF slotIndex < 0 \/ slotIndex >= ArrayLength(slots)
    THEN [slots |-> slots, ret |-> 0]
    ELSE LET slot == slots[slotIndex]
         IN IF slot.count = 0
            THEN [slots |-> slots, ret |-> 0]
            ELSE LET removedCount == MathMin(count, slot.count)
                 IN [slots |-> [slots EXCEPT ![slotIndex] =
                                  [type |-> slot.type,
                                   count |-> slot.count - removedCount]],
                     ret |-> removedCount]

\* removeItem(slotIndex, count): the slots after the call and the value
\* returned
removeItem(slotIndex, count) ==
    IF slotIndex < 0 \/ slotIndex >= ArrayLength(slots)
    THEN [slots |-> slots, ret |-> 0]
    ELSE LET slot == slots[slotIndex]
         IN IF slot.count = 0
            THEN [slots |-> slots, ret |-> 0]
            ELSE LET removedCount == MathMin(count, slot.count)
                 IN [slots |-> [slots EXCEPT ![slotIndex] =
                                  [type |-> IF slot.count - removedCount > 0
                                            THEN slot.type ELSE "",
                                   count |-> slot.count - removedCount]],
                     ret |-> removedCount]

\* setSelectedSlot(slot): state.selectedSlot after the call
setSelectedSlot(slot) ==
    IF slot >= 0 /\ slot < 9 THEN slot ELSE selectedSlot

\* getSelectedItem(): the value returned
getSelectedItem ==
    IF selectedSlot \notin DOMAIN slots THEN Undefined
    ELSE IF slots[selectedSlot].count = 0 THEN Undefined
    ELSE Some(slots[selectedSlot])

\* toggleInventory(): state.isOpen after the call
toggleInventory == ~isOpen

\* setInventoryOpen(open): state.isOpen after the call
setInventoryOpen(open) == open

\* clearInventory(): the partial state passed to set()
clearInventory ==
    [slots |-> [i \in 0..(TOTAL_SLOTS - 1) |-> [type |-> "", count |-> 0]],
     selectedSlot |-> 0]

NoInvCall == [op |-> "none", type |-> "", slot |-> 0, count |-> 0]

InvCall(op, type, slot, count) ==
    [op |-> op, type |-> type, slot |-> slot, count |-> count]

InventoryIdle ==
    /\ slots = createEmptySlots
    /\ selectedSlot = 0
    /\ isOpen = FALSE
    /\ invLast = NoInvCall
    /\ invRet = Undefined
    /\ invCalls = 0

----------------------------------------------------------------------------
(* The inventory store of 9 slots with addBlock / removeBlock (part_004).  *)
(* state.slots and state.hotbar are functions on 0 .. 8; a slot is a       *)
(* record [blockType, count].  blockType is a string or null: the two are  *)
(* kept apart by a tag, so that no string, 'null' included, equals null.   *)

\* null
Null == <<"null">>

\* the string s, as a value of a field that holds a string or null
Str(s) == <<"string", s>>

INVENTORY_SIZE == 9

\* MAX_STACK_SIZE of this store
HOTBAR_MAX_STACK_SIZE == 64

MathMax(a, b) == IF a > b THEN a ELSE b

createEmptySlot == [blockType |-> Null, count |-> 0]

createSlot(blockType, count) == [blockType |-> Str(blockType), count |-> count]

getInitialSlots ==
    [i \in 0..(INVENTORY_SIZE - 1) |->
        IF i = 0 THEN createSlot("DIRT", 64)
        ELSE IF i = 1 THEN createSlot("STONE", 32)
        ELSE createEmptySlot]

\* array.findIndex(predicate), given the set of the indexes whose element
\* satisfies the predicate: the least of them, -1 if there is none
findIndex(found) ==
    IF found = {} THEN -1
    ELSE CHOOSE i \in found : \A j \in found : i <= j

\* a variant of selectSlot of the 9-slot store that stores the index as given
selectSlotUnclamped(index) == index

\* selectSlot(index) of the 9-slot store: state.selectedSlot after the call
selectSlotClamped(index) ==
    MathMax(0, MathMin(INVENTORY_SIZE - 1, index))

\* a variant of addBlock that takes the first slot that is empty or holds a
\* stack of the type that is not full
addBlockFirstAvailable(type) ==
    LET IsAvailable(slot) ==
            \/ slot.blockType = Null
            \/ slot.blockType = Str(type) /\ slot.count < HOTBAR_MAX_STACK_SIZE
        index == findIndex({i \in DOMAIN hotSlots : IsAvailable(hotSlots[i])})
    IN IF index # -1
       THEN LET newSlots == [hotSlots EXCEPT ![index] =
                                createSlot(type, hotSlots[index].count + 1)]
            IN [slots |-> newSlots, hotbar |-> newSlots, ret |-> TRUE]
       ELSE [slots |-> hotSlots, hotbar |-> hotbar, ret |-> FALSE]

\* a variant of addBlock that passes set() the slots without the hotbar
addBlockSlotsOnly(type) ==
    LET IsStack(slot) == slot.blockType = Str(type) /\ slot.count < HOTBAR_MAX_STACK_SIZE
        IsEmpty(slot) == slot.blockType = Null
        existingSlotIndex == findIndex({i \in DOMAIN hotSlots : IsStack(hotSlots[i])})
        emptySlotIndex == findIndex({i \in DOMAIN hotSlots : IsEmpty(hotSlots[i])})
    IN IF existingSlotIndex # -1
       THEN [slots |-> [hotSlots EXCEPT ![existingSlotIndex] =
                           [blockType |-> hotSlots[existingSlotIndex].blockType,
                            count |-> hotSlots[existingSlotIndex].count + 1]],
             hotbar |-> hotbar, ret |-> TRUE]
       ELSE IF emptySlotIndex # -1
       THEN [slots |-> [hotSlots EXCEPT ![emptySlotIndex] = createSlot(type, 1)],
             hotbar |-> hotbar, ret |-> TRUE]
       ELSE [slots |-> hotSlots, hotbar |-> hotbar, ret |-> FALSE]

\* addBlock(type): state.slots and state.hotbar after the call and the value
\* returned
addBlock(type) ==
    LET IsStack(slot) == slot.blockType = Str(type) /\ slot.count < HOTBAR_MAX_STACK_SIZE
        IsEmpty(slot) == slot.blockType = Null
        existingSlotIndex == findIndex({i \in DOMAIN hotSlots : IsStack(hotSlots[i])})
        emptySlotIndex == findIndex({i \in DOMAIN hotSlots : IsEmpty(hotSlots[i])})
    IN IF existingSlotIndex # -1
       THEN LET existingSlot == hotSlots[existingSlotIndex]
                newSlots == [hotSlots EXCEPT ![existingSlotIndex] =
                                [blockType |-> existingSlot.blockType,
                                 count |-> existingSlot.count + 1]]
            IN [slots |-> newSlots, hotbar |-> newSlots, ret |-> TRUE]
       ELSE IF emptySlotIndex # -1
       THEN LET newSlots == [hotSlots EXCEPT ![emptySlotIndex] = createSlot(type, 1)]
            IN [slots |-> newSlots, hotbar |-> newSlots, ret |-> TRUE]
       ELSE [slots |-> hotSlots, hotbar |-> hotbar, ret |-> FALSE]

\* a variant of removeBlock of the 9-slot store that takes the block from
\* the last slot holding the type
removeBlockOfTypeLast(type) ==
    LET holding == {i \in DOMAIN hotSlots : hotSlots[i].blockType = Str(type)}
    IN IF holding = {}
       THEN [slots |-> hotSlots, hotbar |-> hotbar, ret |-> FALSE]
       ELSE LET slotIndex == CHOOSE i \in holding : \A j \in holding : i >= j
                currentSlot == hotSlots[slotIndex]
                newSlots == [hotSlots EXCEPT ![slotIndex] =
                                IF currentSlot.count <= 1 THEN createEmptySlot
                                ELSE [blockType |-> currentSlot.blockType,
                                      count |-> currentSlot.count - 1]]
            IN [slots |-> newSlots, hotbar |-> newSlots, ret |-> TRUE]

\* a variant of removeBlock of the 9-slot store that keeps the block type
\* of a slot it empties
removeBlockOfTypeKeepType(type) ==
    LET HasType(slot) == slot.blockType = Str(type)
        slotIndex == findIndex({i \in DOMAIN hotSlots : HasType(hotSlots[i])})
    IN IF slotIndex = -1
       THEN [slots |-> hotSlots, hotbar |-> hotbar, ret |-> FALSE]
       ELSE LET currentSlot == hotSlots[slotIndex]
                newSlots == [hotSlots EXCEPT ![slotIndex] =
                                [blockType |-> currentSlot.blockType,
                                 count |-> currentSlot.count - 1]]
            IN [slots |-> newSlots, hotbar |-> newSlots, ret |-> TRUE]

\* removeBlock(type) of the 9-slot store: state.slots and state.hotbar after
\* the call and the value returned
removeBlockOfType(type) ==
    LET HasType(slot) == slot.blockType = Str(type)
        slotIndex == findIndex({i \in DOMAIN hotSlots : HasType(hotSlots[i])})
    IN IF slotIndex = -1
       THEN [slots |-> hotSlots, hotbar |-> hotbar, ret |-> FALSE]
       ELSE LET currentSlot == hotSlots[slotIndex]
                currentCount == currentSlot.count
                newSlots == [hotSlots EXCEPT ![slotIndex] =
                                IF currentCount <= 1 THEN createEmptySlot
                                ELSE [blockType |-> currentSlot.blockType,
                                      count |-> currentCount - 1]]
            IN [slots |-> newSlots, hotbar |-> newSlots, ret |-> TRUE]

NoHotCall == [op |-> "none", type |-> "", index |-> 0]

HotCall(op, type, index) == [op |-> op, type |-> type, index |-> index]

HotbarIdle ==
    /\ hotSlots = getInitialSlots
    /\ hotbar = getInitialSlots
    /\ hotSelectedSlot = 0
    /\ hotLast = NoHotCall
    /\ hotRet = Undefined
    /\ hotCalls = 0

----------------------------------------------------------------------------
(* The indexed hotbar store with addToSlot / removeFromSlot                *)
(* (inventoryStore.ts).  state.slots is a function on 0 .. 8; a slot is a  *)
(* record [blockType, count], blockType being Null or Str of a string.     *)

DEFAULT_INVENTORY ==
    [i \in 0..8 |->
        [blockType |-> Str(<<"grass", "dirt", "stone", "wood", "leaves", "sand",
                             "water", "cobblestone", "planks">>[i + 1]),
         count |-> 64]]

\* selectSlot(index) of the indexed store: state.selectedSlot after the call
selectSlot(index) ==
    IF index >= 0 /\ index < 9 THEN index ELSE barSelectedSlot

\* a variant of addToSlot that does not compare the block types
addToSlotAnyType(index, blockType, count) ==
    IF index < 0 \/ index >= ArrayLength(barSlots) THEN barSlots
    ELSE LET slot == barSlots[index]
         IN [barSlots EXCEPT ![index] =
                [blockType |-> Str(blockType),
                 count |-> IF slot.blockType = Null THEN count
                           ELSE slot.count + count]]

\* addToSlot(index, blockType, count): state.slots after the call
addToSlot(index, blockType, count) ==
    IF index < 0 \/ index >= ArrayLength(barSlots) THEN barSlots
    ELSE LET slot == barSlots[index]
         IN IF slot.blockType = Str(blockType) \/ slot.blockType = Null
            THEN [barSlots EXCEPT ![index] =
                     [blockType |-> Str(blockType),
                      count |-> IF slot.blockType = Null THEN count
                                ELSE slot.count + count]]
            ELSE barSlots

\* removeFromSlot(index): state.slots after the call
removeFromSlot(index) ==
    IF index < 0 \/ index >= ArrayLength(barSlots) THEN barSlots
    ELSE LET slot == barSlots[index]
         IN IF slot.count > 0
            THEN LET newCount == slot.count - 1
                 IN [barSlots EXCEPT ![index] =
                        [blockType |-> IF newCount = 0 THEN Null ELSE slot.blockType,
                         count |-> newCount]]
            ELSE barSlots

NoBarCall == [op |-> "none", index |-> 0, blockType |-> "", count |-> 0]

BarCall(op, index, blockType, count) ==
    [op |-> op, index |-> index, blockType |-> blockType, count |-> count]

BarIdle ==
    /\ barSlots = DEFAULT_INVENTORY
    /\ barSelectedSlot = 0
    /\ barLast = NoBarCall

----------------------------------------------------------------------------
(* The store as a state machine *)

NoCall == [op |-> "none", x |-> 0, y |-> 0, z |-> 0, type |-> 0,
           data |-> 0, before |-> 1, error |-> ""]

Call(op, x, y, z, type, data, error) ==
    [op |-> op, x |-> x, y |-> y, z |-> z, type |-> type,
     data |-> data, before |-> chunks, error |-> error]

CoordIdle == cw = 0 /\ cchunk = 0 /\ clocal = 0 /\ cpc = "idle"

TerrainIdle == terrain = [pc |-> "idle"]

Init ==
    /\ InventoryIdle
    /\ HotbarIdle
    /\ BarIdle
    /\ arrays = <<>>
    /\ maps = <<EmptyFun>>
    /\ chunks = 1
    /\ seed \in Seeds
    /\ playerPosition = <<0, 64, 0>>
    /\ last = NoCall
    /\ ret = Undefined
    /\ CoordIdle
    /\ TerrainIdle

Apply(out, call) ==
    /\ arrays' = out.arrays
    /\ maps' = out.maps
    /\ chunks' = out.chunks
    /\ ret' = out.ret
    /\ last' = call
    /\ UNCHANGED <<seed, playerPosition, coordVars, terrainVars, inventoryVars, hotbarVars, barVars>>

\* the caller builds a new array and hands it to addChunk
AddChunk ==
    \E chunkX \in ChunkXS, chunkZ \in ChunkZS, d \in DataInputs :
        /\ Len(maps) <= MaxWrites
        /\ LET id == Len(arrays) + 1
               out == addChunk(chunkX, chunkZ, id)
           IN Apply([out EXCEPT !.arrays = Append(arrays, d)],
                    Call("addChunk", chunkX, 0, chunkZ, 0, id, out.error))

\* the caller hands addChunk an array it holds already (read from the store
\* or handed over before)
AddChunkShared ==
    \E chunkX \in ChunkXS, chunkZ \in ChunkZS, id \in DOMAIN arrays :
        /\ Len(maps) <= MaxWrites
        /\ LET out == addChunk(chunkX, chunkZ, id)
           IN Apply(out, Call("addChunk", chunkX, 0, chunkZ, 0, id, out.error))

GetBlock ==
    \E x \in XS, y \in YS, z \in ZS :
        LET out == getBlock(x, y, z)
        IN Apply(out, Call("getBlock", x, y, z, 0, 0, out.error))

SetBlock ==
    \E x \in XS, y \in YS, z \in ZS, type \in TypeInputs :
        /\ Len(maps) <= MaxWrites
        /\ LET out == setBlock(x, y, z, type)
           IN Apply(out, Call("setBlock", x, y, z, type, 0, out.error))

RemoveBlock ==
    \E x \in XS, y \in YS, z \in ZS :
        /\ Len(maps) <= MaxWrites
        /\ LET out == removeBlock(x, y, z)
           IN Apply(out, Call("removeBlock", x, y, z, 0, 0, out.error))

\* set(partial): the fields of the partial state replace those of the state,
\* the other fields stay
SetState(partial) ==
    /\ chunks' = IF "chunks" \in DOMAIN partial THEN partial.chunks ELSE chunks
    /\ seed' = IF "seed" \in DOMAIN partial THEN partial.seed ELSE seed
    /\ playerPosition' = IF "playerPosition" \in DOMAIN partial
                         THEN partial.playerPosition ELSE playerPosition

SetPlayerPosition ==
    \E position \in Positions :
        /\ SetState(setPlayerPosition(position))
        /\ last' = Call("setPlayerPosition", position[1], position[2], position[3], 0, 0, "")
        /\ ret' = Undefined
        /\ UNCHANGED <<arrays, maps, coordVars, terrainVars, inventoryVars, hotbarVars, barVars>>

Next ==
    \/ AddChunk
    \/ AddChunkShared
    \/ GetBlock
    \/ SetBlock
    \/ RemoveBlock
    \/ SetPlayerPosition

Spec == Init /\ [][Next]_vars

----------------------------------------------------------------------------
(* The coordinate conversions applied to one world coordinate *)

StoreIdle ==
    /\ arrays = <<>>
    /\ maps = <<EmptyFun>>
    /\ chunks = 1
    /\ seed \in Seeds
    /\ playerPosition = <<0, 64, 0>>
    /\ last = NoCall
    /\ ret = Undefined

InitCoord ==
    /\ InventoryIdle
    /\ HotbarIdle
    /\ BarIdle
    /\ StoreIdle
    /\ TerrainIdle
    /\ cw \in -MaxCoord..MaxCoord
    /\ cchunk = 0
    /\ clocal = 0
    /\ cpc = "input"

ConvertX ==
    /\ cpc = "input"
    /\ cchunk' = worldToChunkX(cw)
    /\ clocal' = worldToLocal(cw)
    /\ cpc' = "doneX"
    /\ UNCHANGED <<cw, storeVars, terrainVars, inventoryVars, hotbarVars, barVars>>

ConvertZ ==
    /\ cpc = "input"
    /\ cchunk' = worldToChunkZ(cw)
    /\ clocal' = worldToLocal(cw)
    /\ cpc' = "doneZ"
    /\ UNCHANGED <<cw, storeVars, terrainVars, inventoryVars, hotbarVars, barVars>>

NextCoord == ConvertX \/ ConvertZ

SpecCoord == InitCoord /\ [][NextCoord]_vars

----------------------------------------------------------------------------
(* One write into a new store, at a block of the chunk (chunkX, chunkZ)    *)

MaxChunkCoord == 12

ChunkCoords == (-MaxChunkCoord)..MaxChunkCoord

\* the block written: local (5, 3, 9) of its chunk
KeyLocalX == 5
KeyLocalZ == 9
KeyY == 3
KeyType == 7

InitKey ==
    /\ InventoryIdle
    /\ HotbarIdle
    /\ BarIdle
    /\ StoreIdle
    /\ CoordIdle
    /\ TerrainIdle

WriteIntoChunk ==
    \E chunkX \in ChunkCoords, chunkZ \in ChunkCoords :
        /\ last.op = "none"
        /\ LET x == chunkX * CHUNK_SIZE + KeyLocalX
               z == chunkZ * CHUNK_SIZE + KeyLocalZ
               out == setBlock(x, KeyY, z, KeyType)
           IN Apply(out, Call("setBlock", x, KeyY, z, KeyType, 0, out.error))

NextKey == WriteIntoChunk

SpecKey == InitKey /\ [][NextKey]_vars

----------------------------------------------------------------------------
(* One setBlock on a new store, at any coordinate and height, and the      *)
(* constants exported to the callers of the store (part_000)               *)

\* CHUNK_SIZE as exported by the constants module
EXPORTED_CHUNK_SIZE == 16

WORLD_HEIGHT == 32

MaxCellCoord == 17

CellXS == (-MaxCellCoord)..MaxCellCoord
CellZS == {-17, -16, -1, 0, 15, 16}
CellYS == {-1, 0, 1, WORLD_HEIGHT - 1, WORLD_HEIGHT, CHUNK_HEIGHT - 1, CHUNK_HEIGHT}

InitCell ==
    /\ StoreIdle
    /\ CoordIdle
    /\ TerrainIdle
    /\ InventoryIdle
    /\ HotbarIdle
    /\ BarIdle

WriteCell ==
    \E x \in CellXS, y \in CellYS, z \in CellZS :
        /\ last.op = "none"
        /\ LET out == setBlock(x, y, z, KeyType)
           IN Apply(out, Call("setBlock", x, y, z, KeyType, 0, out.error))

NextCell == WriteCell

SpecCell == InitCell /\ [][NextCell]_vars

----------------------------------------------------------------------------
(* The seeded generator of createTerrainNoise (noise.ts).  A 32-bit word is *)
(* the pair <<high half, low half>> of its 16-bit halves.  The generator   *)
(* is handed to createNoise2D of the simplex-noise package, whose code is  *)
(* not among the sources: when and how often the package draws from it,    *)
(* and what it returns for a point, are not modelled.                      *)

W16 == 65536

\* a number 0 <= n < 2^31 as a word
Word(n) == <<n \div W16, n % W16>>

\* a + b, modulo 2^32
Add32(a, b) ==
    LET lo == a[2] + b[2]
    IN <<(a[1] + b[1] + (lo \div W16)) % W16, lo % W16>>

RECURSIVE Xor16(_, _, _)
Xor16(a, b, n) ==
    IF n = 0 THEN 0 ELSE ((a + b) % 2) + 2 * Xor16(a \div 2, b \div 2, n - 1)

RECURSIVE Or16(_, _, _)
Or16(a, b, n) ==
    IF n = 0 THEN 0
    ELSE (IF a % 2 = 1 \/ b % 2 = 1 THEN 1 ELSE 0) + 2 * Or16(a \div 2, b \div 2, n - 1)

\* a ^ b and a | b
Xor32(a, b) == <<Xor16(a[1], b[1], 16), Xor16(a[2], b[2], 16)>>
Or32(a, b) == <<Or16(a[1], b[1], 16), Or16(a[2], b[2], 16)>>

\* a >>> k for 0 < k < 16
Shr32(a, k) ==
    LET p == 2 ^ k
    IN <<a[1] \div p, (a[2] \div p) + (a[1] % p) * (W16 \div p)>>

\* the product of two 16-bit numbers as a word
Mul16(a, b) ==
    LET b0 == b % 256
        b1 == b \div 256
        s == a * b0 + ((a * b1) % 256) * 256
    IN <<(s \div W16) + ((a * b1) \div 256), s % W16>>

\* Math.imul(a, b): the low 32 bits of the product
Imul(a, b) ==
    LET ll == Mul16(a[2], b[2])
        cross == (Mul16(a[1], b[2])[2] + Mul16(a[2], b[1])[2]) % W16
    IN <<(ll[1] + cross) % W16, ll[2]>>

\* one call of random() from generator state `state` (taken modulo 2^32):
\* the state after it and the word w of the result w / 4294967296
random(state) ==
    LET s1 == Add32(state, <<27947, 31221>>)   \* 0x6d2b79f5
        t1 == Imul(Xor32(s1, Shr32(s1, 15)), Or32(s1, Word(1)))
        t2 == Xor32(t1, Add32(t1, Imul(Xor32(t1, Shr32(t1, 7)), Or32(t1, Word(61)))))
    IN [state |-> s1, value |-> Xor32(t2, Shr32(t2, 14))]

----------------------------------------------------------------------------
(* Numbers of noise.ts.  The heights are fractions, kept exactly as        *)
(* <<numerator, denominator>> in lowest terms with a positive denominator. *)

RECURSIVE Gcd(_, _)
Gcd(a, b) == IF b = 0 THEN a ELSE Gcd(b, a % b)

Abs(n) == IF n < 0 THEN -n ELSE n

Rat(n, d) ==
    LET g == Gcd(Abs(n), Abs(d))
        sgn == IF d < 0 THEN -1 ELSE 1
    IN <<sgn * (n \div g), sgn * (d \div g)>>

RAdd(a, b) == Rat(a[1] * b[2] + b[1] * a[2], a[2] * b[2])
RMul(a, b) == Rat(a[1] * b[1], a[2] * b[2])
RDiv(a, b) == Rat(a[1] * b[2], a[2] * b[1])
RLe(a, b) == a[1] * b[2] <= b[1] * a[2]

----------------------------------------------------------------------------
(* Terrain height (noise.ts) *)

DEFAULT_OCTAVES ==
    << [amplitude |-> Rat(1, 1), frequency |-> Rat(1, 100)],
       [amplitude |-> Rat(1, 2), frequency |-> Rat(2, 100)],
       [amplitude |-> Rat(1, 4), frequency |-> Rat(4, 100)] >>

\* the loop of getTerrainHeight over octaves i..Len(DEFAULT_OCTAVES), from
\* the accumulators acc = [totalAmplitude, noiseSum]
RECURSIVE OctaveLoop(_, _, _, _, _)
OctaveLoop(noise, x, z, i, acc) ==
    IF i > Len(DEFAULT_OCTAVES) THEN acc
    ELSE LET octave == DEFAULT_OCTAVES[i]
             scaledX == RMul(Rat(x, 1), octave.frequency)
             scaledZ == RMul(Rat(z, 1), octave.frequency)
         IN OctaveLoop(noise, x, z, i + 1,
               [noiseSum |-> RAdd(acc.noiseSum,
                                  RMul(noise[<<scaledX, scaledZ>>], octave.amplitude)),
                totalAmplitude |-> RAdd(acc.totalAmplitude, octave.amplitude)])

\* a variant of getTerrainHeight that does not divide by the total amplitude
getTerrainHeightUnnormalized(noise, x, z, maxHeight) ==
    LET acc == OctaveLoop(noise, x, z, 1,
                          [noiseSum |-> Rat(0, 1), totalAmplitude |-> Rat(0, 1)])
    IN RMul(acc.noiseSum, Rat(maxHeight, 1))

\* getTerrainHeight(noise, x, z, maxHeight); noise is the function from
\* sample point <<x, z>> to the value of the noise source there
getTerrainHeight(noise, x, z, maxHeight) ==
    LET acc == OctaveLoop(noise, x, z, 1,
                          [noiseSum |-> Rat(0, 1), totalAmplitude |-> Rat(0, 1)])
        normalizedHeight == RDiv(acc.noiseSum, acc.totalAmplitude)
    IN RMul(normalizedHeight, Rat(maxHeight, 1))

\* the points at which getTerrainHeight samples the noise for column (x, z)
SamplePoints(x, z) ==
    { <<RMul(Rat(x, 1), DEFAULT_OCTAVES[i].frequency),
        RMul(Rat(z, 1), DEFAULT_OCTAVES[i].frequency)>> : i \in DOMAIN DEFAULT_OCTAVES }

(* Bounds: a noise source takes the values k / NoiseDen, k in 0..NoiseDen *)
NoiseDen == 2

TerrainXS == {-7, 0, 3}
TerrainZS == {0, 50}
MaxHeights == {-10, 0, 1, 64}

NoiseValues == { Rat(k, NoiseDen) : k \in 0..NoiseDen }

\* any column, any maxHeight, and any noise source with samples in [0, 1]
InitTerrain ==
    /\ InventoryIdle
    /\ HotbarIdle
    /\ BarIdle
    /\ StoreIdle
    /\ CoordIdle
    /\ \E x \in TerrainXS, z \in TerrainZS, maxHeight \in MaxHeights :
          \E noise \in [SamplePoints(x, z) -> NoiseValues] :
              terrain = [pc |-> "input", x |-> x, z |-> z, maxHeight |-> maxHeight,
                         noise |-> noise, height |-> Rat(0, 1)]

ComputeHeight ==
    /\ terrain.pc = "input"
    /\ terrain' = [terrain EXCEPT
                     !.pc = "done",
                     !.height = getTerrainHeight(terrain.noise, terrain.x,
                                                 terrain.z, terrain.maxHeight)]
    /\ UNCHANGED <<storeVars, coordVars, inventoryVars, hotbarVars, barVars>>

NextTerrain == ComputeHeight

SpecTerrain == InitTerrain /\ [][NextTerrain]_vars

----------------------------------------------------------------------------
(* The inventory store as a state machine *)

MaxInvCalls == 2

ItemTypes == {BLOCK_TYPES.WATER, BLOCK_TYPES.DIRT, ""}
AddCounts == {1, 50, 2000}
SlotIndexes == {-1, 0, 8, 9, 36}
RemoveCounts == {-5, 0, 16, 100}
SelectSlots == {-1, 3, 9}

InitInventory ==
    /\ StoreIdle
    /\ CoordIdle
    /\ TerrainIdle
    /\ InventoryIdle
    /\ HotbarIdle
    /\ BarIdle

InvReturn(call, value) ==
    /\ invCalls < MaxInvCalls
    /\ invLast' = call
    /\ invRet' = value
    /\ invCalls' = invCalls + 1
    /\ UNCHANGED <<storeVars, coordVars, terrainVars, hotbarVars, barVars>>

AddItemCall(type, count) ==
    LET out == addItem(type, count)
    IN /\ slots' = out.slots
       /\ UNCHANGED <<selectedSlot, isOpen>>
       /\ InvReturn(InvCall("addItem", type, 0, count), Some(out.ret))

AddItem ==
    \E type \in ItemTypes, count \in AddCounts : AddItemCall(type, count)

RemoveItemCall(slotIndex, count) ==
    LET out == removeItem(slotIndex, count)
    IN /\ slots' = out.slots
       /\ UNCHANGED <<selectedSlot, isOpen>>
       /\ InvReturn(InvCall("removeItem", "", slotIndex, count), Some(out.ret))

RemoveItem ==
    \E slotIndex \in SlotIndexes, count \in RemoveCounts :
        RemoveItemCall(slotIndex, count)

SetSelectedSlot ==
    \E slot \in SelectSlots :
        /\ selectedSlot' = setSelectedSlot(slot)
        /\ UNCHANGED <<slots, isOpen>>
        /\ InvReturn(InvCall("setSelectedSlot", "", slot, 0), Undefined)

GetSelectedItem ==
    /\ UNCHANGED <<slots, selectedSlot, isOpen>>
    /\ InvReturn(InvCall("getSelectedItem", "", 0, 0), getSelectedItem)

ToggleInventory ==
    /\ isOpen' = toggleInventory
    /\ UNCHANGED <<slots, selectedSlot>>
    /\ InvReturn(InvCall("toggleInventory", "", 0, 0), Undefined)

SetInventoryOpen ==
    \E open \in BOOLEAN :
        /\ isOpen' = setInventoryOpen(open)
        /\ UNCHANGED <<slots, selectedSlot>>
        /\ InvReturn(InvCall("setInventoryOpen", "", IF open THEN 1 ELSE 0, 0), Undefined)

ClearInventory ==
    /\ slots' = clearInventory.slots
    /\ selectedSlot' = clearInventory.selectedSlot
    /\ UNCHANGED isOpen
    /\ InvReturn(InvCall("clearInventory", "", 0, 0), Undefined)

NextInventory ==
    \/ AddItem
    \/ RemoveItem
    \/ SetSelectedSlot
    \/ GetSelectedItem
    \/ ToggleInventory
    \/ SetInventoryOpen
    \/ ClearInventory

SpecInventory == InitInventory /\ [][NextInventory]_vars

\* the calls of addItem and removeItem whose count is not negative, and
\* clearInventory
NonNegative(counts) == {count \in counts : count >= 0}

AddItemNonNegative ==
    \E type \in ItemTypes, count \in NonNegative(AddCounts \cup RemoveCounts) :
        AddItemCall(type, count)

RemoveItemNonNegative ==
    \E slotIndex \in SlotIndexes, count \in NonNegative(AddCounts \cup RemoveCounts) :
        RemoveItemCall(slotIndex, count)

NextInventoryNonNegative ==
    \/ AddItemNonNegative
    \/ RemoveItemNonNegative
    \/ ClearInventory

SpecInventoryNonNegative == InitInventory /\ [][NextInventoryNonNegative]_vars

----------------------------------------------------------------------------
(* The 9-slot inventory store as a state machine.  addBlock adds one block *)
(* a call, so a full inventory lies hundreds of calls from the initial     *)
(* state: the machine starts in the initial state or in one of a few later *)
(* states, each given with calls that reach it.                            *)

MaxHotCalls == 3

HotTypes == {"DIRT", "STONE", "WOOD"}
HotIndexes == {-1, 0, 4, 8, 9, 100}

\* after 32 addBlock("STONE") and 447 addBlock("WOOD"): one block missing
\* to a full inventory
AlmostFullSlots ==
    [i \in 0..(INVENTORY_SIZE - 1) |->
        IF i = 0 THEN createSlot("DIRT", 64)
        ELSE IF i = 1 THEN createSlot("STONE", 64)
        ELSE IF i = 8 THEN createSlot("WOOD", 63)
        ELSE createSlot("WOOD", 64)]

\* after 65 addBlock("WOOD") and 32 removeBlock("STONE"): an empty slot
\* before a stack that is not full
HoleSlots ==
    [i \in 0..(INVENTORY_SIZE - 1) |->
        IF i = 0 THEN createSlot("DIRT", 64)
        ELSE IF i = 2 THEN createSlot("WOOD", 64)
        ELSE IF i = 3 THEN createSlot("WOOD", 1)
        ELSE createEmptySlot]

\* after 63 removeBlock("DIRT"): a stack of one block
LastOneSlots ==
    [i \in 0..(INVENTORY_SIZE - 1) |->
        IF i = 0 THEN createSlot("DIRT", 1)
        ELSE IF i = 1 THEN createSlot("STONE", 32)
        ELSE createEmptySlot]

HotStartSlots == {getInitialSlots, AlmostFullSlots, HoleSlots, LastOneSlots}

InitHotbar ==
    /\ StoreIdle
    /\ CoordIdle
    /\ TerrainIdle
    /\ InventoryIdle
    /\ BarIdle
    /\ hotSlots \in HotStartSlots
    /\ hotbar = hotSlots
    /\ hotSelectedSlot = 0
    /\ hotLast = NoHotCall
    /\ hotRet = Undefined
    /\ hotCalls = 0

HotReturn(call, value) ==
    /\ hotCalls < MaxHotCalls
    /\ hotLast' = call
    /\ hotRet' = value
    /\ hotCalls' = hotCalls + 1
    /\ UNCHANGED <<storeVars, coordVars, terrainVars, inventoryVars, barVars>>

HotSelectSlot ==
    \E index \in HotIndexes :
        /\ hotSelectedSlot' = selectSlotClamped(index)
        /\ UNCHANGED <<hotSlots, hotbar>>
        /\ HotReturn(HotCall("selectSlot", "", index), Undefined)

AddBlock ==
    \E type \in HotTypes :
        LET out == addBlock(type)
        IN /\ hotSlots' = out.slots
           /\ hotbar' = out.hotbar
           /\ UNCHANGED hotSelectedSlot
           /\ HotReturn(HotCall("addBlock", type, 0), Some(out.ret))

RemoveBlockOfType ==
    \E type \in HotTypes :
        LET out == removeBlockOfType(type)
        IN /\ hotSlots' = out.slots
           /\ hotbar' = out.hotbar
           /\ UNCHANGED hotSelectedSlot
           /\ HotReturn(HotCall("removeBlock", type, 0), Some(out.ret))

NextHotbar == HotSelectSlot \/ AddBlock \/ RemoveBlockOfType

SpecHotbar == InitHotbar /\ [][NextHotbar]_vars

----------------------------------------------------------------------------
(* The indexed hotbar store as a state machine *)

\* addToSlot is not called when it would raise a count above this
MaxBarCount == 70

BarIndexes == {-1, 0, 9}
BarSelectIndexes == {-1, 0, 4, 8, 9}
BarTypes == {"grass", "dirt", "null"}
BarCounts == {0, 1, 5}

InitBar ==
    /\ StoreIdle
    /\ CoordIdle
    /\ TerrainIdle
    /\ InventoryIdle
    /\ HotbarIdle
    /\ BarIdle

BarReturn(call) ==
    /\ barLast' = call
    /\ UNCHANGED <<storeVars, coordVars, terrainVars, inventoryVars, hotbarVars>>

BarSelectSlot ==
    \E index \in BarSelectIndexes :
        /\ barSelectedSlot' = selectSlot(index)
        /\ UNCHANGED barSlots
        /\ BarReturn(BarCall("selectSlot", index, "", 0))

AddToSlot ==
    \E index \in BarIndexes, blockType \in BarTypes, count \in BarCounts :
        /\ index \in DOMAIN barSlots => barSlots[index].count + count <= MaxBarCount
        /\ barSlots' = addToSlot(index, blockType, count)
        /\ UNCHANGED barSelectedSlot
        /\ BarReturn(BarCall("addToSlot", index, blockType, count))

RemoveFromSlot ==
    \E index \in BarIndexes :
        /\ barSlots' = removeFromSlot(index)
        /\ UNCHANGED barSelectedSlot
        /\ BarReturn(BarCall("removeFromSlot", index, "", 0))

NextBar == BarSelectSlot \/ AddToSlot \/ RemoveFromSlot

SpecBar == InitBar /\ [][NextBar]_vars

----------------------------------------------------------------------------
(* The slot selection of the three inventory stores, side by side *)

NextSelect ==
    \/ SetSelectedSlot
    \/ ClearInventory
    \/ HotSelectSlot
    \/ BarSelectSlot

SpecSelect == InitBar /\ [][NextSelect]_vars

----------------------------------------------------------------------------
(* Vocabulary of the properties *)

\* number of cells of a well-formed chunk
ChunkLen == CHUNK_SIZE * CHUNK_SIZE * CHUNK_HEIGHT

\* y is inside the vertical span the store enforces
InRange(y) == y >= 0 /\ y < CHUNK_HEIGHT

\* key of the chunk holding world column (x, z)
KeyOf(x, z) == getChunkKey(worldToChunkX(x), worldToChunkZ(z))

\* index of world cell (x, y, z) inside its chunk
CellOf(x, y, z) == worldToLocal(x) + worldToLocal(z) * 16 + y * 256

\* the contents published by Map object m: chunk key -> array value
ChunkView(m) == [k \in DOMAIN maps[m] |-> arrays[maps[m][k]]]

\* array a with cell i set to air
ClearCell(a, i) ==
    [len |-> a.len, cells |-> [j \in DOMAIN a.cells \ {i} |-> a.cells[j]]]

\* the contents obtained from those of Map object m by writing air at
\* (x, y, z): nothing for y out of range, else the target chunk (all air
\* if it did not exist) with that one cell cleared
AirWritten(m, x, y, z) ==
    IF ~InRange(y) THEN ChunkView(m)
    ELSE LET old == ChunkView(m)
             key == KeyOf(x, z)
             base == IF key \in DOMAIN old THEN old[key]
                     ELSE [len |-> ChunkLen, cells |-> EmptyFun]
         IN [k \in DOMAIN old \cup {key} |->
                IF k = key THEN ClearCell(base, CellOf(x, y, z)) ELSE old[k]]

\* the last call was an in-range setBlock / removeBlock
WroteBlock == last.op \in {"setBlock", "removeBlock"} /\ InRange(last.y)

----------------------------------------------------------------------------
(* C1. Write/read consistency: in every reachable state, setBlock(x, y, z,  *)
(* id) with y in range and a valid block id (0..255), followed by          *)
(* getBlock(x, y, z), returns id.                                          *)
WriteReadConsistency ==
    (last.op = "setBlock" /\ InRange(last.y) /\ last.type \in 0..255)
        => getBlock(last.x, last.y, last.z).ret = Some(last.type)

(* C2. Snapshot isolation: no step changes an array or a Map that exists   *)
(* already (so whatever a consumer read earlier, or handed to addChunk,    *)
(* keeps its cell values); a step that changes the chunk collection        *)
(* publishes a Map object that did not exist before, and an in-range       *)
(* setBlock / removeBlock stores the target chunk in an array object that  *)
(* did not exist before.                                                   *)
SnapshotIsolation ==
    [][ /\ \A i \in DOMAIN arrays : i \in DOMAIN arrays' /\ arrays'[i] = arrays[i]
        /\ \A i \in DOMAIN maps : i \in DOMAIN maps' /\ maps'[i] = maps[i]
        /\ (chunks' # chunks) => chunks' \notin DOMAIN maps
        /\ (last'.op \in {"setBlock", "removeBlock"} /\ InRange(last'.y))
              => /\ chunks' # chunks
                 /\ maps'[chunks'][KeyOf(last'.x, last'.z)] \notin DOMAIN arrays
      ]_vars

\* setBlock has rewritten a chunk that existed: the Map and the array read
\* before the call still hold the old cells, the current ones differ
SnapshotIsolationWitness ==
    /\ last.op = "setBlock"
    /\ InRange(last.y)
    /\ KeyOf(last.x, last.z) \in DOMAIN maps[last.before]
    /\ chunks # last.before
    /\ maps[chunks][KeyOf(last.x, last.z)] # maps[last.before][KeyOf(last.x, last.z)]
    /\ ChunkView(chunks)[KeyOf(last.x, last.z)] # ChunkView(last.before)[KeyOf(last.x, last.z)]

(* C3. Lazy read: a getBlock call changes nothing of the store (heap,      *)
(* chunk collection, seed, playerPosition) and returns undefined when the  *)
(* chunk of the coordinate does not exist; an addChunk that follows a      *)
(* getBlock returns normally and stores the array handed over.             *)
LazyReadNonMaterialization ==
    [][ /\ (last'.op = "getBlock")
              => /\ UNCHANGED <<arrays, maps, chunks, seed, playerPosition>>
                 /\ (KeyOf(last'.x, last'.z) \notin DOMAIN maps[chunks])
                        => ret' = Undefined
        /\ (last.op = "getBlock" /\ last'.op = "addChunk")
              => /\ last'.error = ""
                 /\ getChunkKey(last'.x, last'.z) \in DOMAIN maps'[chunks']
                 /\ maps'[chunks'][getChunkKey(last'.x, last'.z)] = last'.data
      ]_vars

\* getBlock with y in range has returned undefined for a chunk that does not
\* exist, in a world that holds other chunks, and the chunk still does not exist
LazyReadWitness ==
    /\ last.op = "getBlock"
    /\ InRange(last.y)
    /\ maps[chunks] # EmptyFun
    /\ KeyOf(last.x, last.z) \notin DOMAIN maps[chunks]
    /\ ret = Undefined

(* C4. Vertical bound: a getBlock, setBlock or removeBlock call with y < 0 *)
(* or y >= CHUNK_HEIGHT changes nothing of the store and returns           *)
(* undefined, whether or not the chunk exists, and a read at that          *)
(* coordinate is absent afterwards.                                        *)
VerticalBound ==
    [][ (last'.op \in {"getBlock", "setBlock", "removeBlock"} /\ ~InRange(last'.y))
            => /\ UNCHANGED <<arrays, maps, chunks, seed, playerPosition>>
               /\ ret' = Undefined
               /\ getBlock(last'.x, last'.y, last'.z).ret = Undefined
      ]_vars

\* setBlock at y = CHUNK_HEIGHT into a chunk that does not exist has returned
\* and the chunk still does not exist
VerticalBoundWitness ==
    /\ last.op = "setBlock"
    /\ last.y = CHUNK_HEIGHT
    /\ last.type # 0
    /\ chunks = last.before
    /\ KeyOf(last.x, last.z) \notin DOMAIN maps[chunks]

(* C5. Coordinate round-trip: for the converted world coordinate,          *)
(* chunk * CHUNK_SIZE + local is the coordinate itself.                    *)
CoordinateRoundTrip ==
    (cpc \in {"doneX", "doneZ"}) => cchunk * CHUNK_SIZE + clocal = cw

\* a negative coordinate that is no multiple of CHUNK_SIZE has been converted
CoordinateRoundTripWitness ==
    cpc = "doneX" /\ cw = -17 /\ cchunk = -2 /\ clocal = 15

(* C6. Negative-coordinate correctness: the chunk coordinate is the floor  *)
(* of x / CHUNK_SIZE (the one q with q*CHUNK_SIZE <= x < (q+1)*CHUNK_SIZE),*)
(* the local coordinate is ((x rem CHUNK_SIZE) + CHUNK_SIZE) rem           *)
(* CHUNK_SIZE and lies in 0..CHUNK_SIZE-1; -1 gives chunk -1 and local 15, *)
(* -16 gives local 0.                                                      *)
NegativeCoordinateCorrectness ==
    (cpc \in {"doneX", "doneZ"}) =>
        /\ cchunk * CHUNK_SIZE <= cw
        /\ cw < (cchunk + 1) * CHUNK_SIZE
        /\ clocal = JsRem(JsRem(cw, CHUNK_SIZE) + CHUNK_SIZE, CHUNK_SIZE)
        /\ clocal \in 0..(CHUNK_SIZE - 1)
        /\ (cw = -1) => (clocal = 15 /\ cchunk = -1)
        /\ (cw = -16) => clocal = 0

\* -1 has been converted with worldToChunkZ and worldToLocal
NegativeCoordinateWitness ==
    cpc = "doneZ" /\ cw = -1 /\ cchunk = -1 /\ clocal = 15

(* C7. Shape validation: addChunk with an array whose length is not        *)
(* CHUNK_SIZE * CHUNK_SIZE * CHUNK_HEIGHT fails with ShapeMismatch and     *)
(* leaves the chunk collection as it was.                                  *)
ShapeValidation ==
    (last.op = "addChunk" /\ arrays[last.data].len # ChunkLen)
        => /\ last.error = "ShapeMismatch"
           /\ ChunkView(chunks) = ChunkView(last.before)

(* C8. Write-side materialization: after an in-range setBlock into a chunk *)
(* that did not exist, the chunk exists with the full shape, the written   *)
(* cell reads id (for a valid id), every other cell of it is air, and the  *)
(* chunk collection gained that chunk only.                                *)
WriteSideMaterialization ==
    (last.op = "setBlock" /\ InRange(last.y)
        /\ KeyOf(last.x, last.z) \notin DOMAIN maps[last.before])
    => LET key == KeyOf(last.x, last.z)
       IN /\ key \in DOMAIN maps[chunks]
          /\ DOMAIN maps[chunks] = DOMAIN maps[last.before] \cup {key}
          /\ \A k \in DOMAIN maps[last.before] : maps[chunks][k] = maps[last.before][k]
          /\ arrays[maps[chunks][key]].len = ChunkLen
          /\ DOMAIN arrays[maps[chunks][key]].cells \subseteq {CellOf(last.x, last.y, last.z)}
          /\ (last.type \in 0..255)
                => getBlock(last.x, last.y, last.z).ret = Some(last.type)

\* setBlock has created the chunk of a negative column next to another chunk
WriteSideMaterializationWitness ==
    /\ last.op = "setBlock"
    /\ last.x = -1 /\ last.y = 255 /\ last.z = -17 /\ last.type = 255
    /\ maps[last.before] # EmptyFun
    /\ KeyOf(last.x, last.z) \notin DOMAIN maps[last.before]
    /\ KeyOf(last.x, last.z) \in DOMAIN maps[chunks]

(* C9. removeBlock(x, y, z) and setBlock(x, y, z, 0) have the same effect  *)
(* from every state: both leave the contents obtained by writing air at    *)
(* (x, y, z), which creates an all-air chunk where none existed and is no  *)
(* change for y out of range.                                              *)
RemoveIsSetAir ==
    (last.op = "removeBlock" \/ (last.op = "setBlock" /\ last.type = 0))
        => ChunkView(chunks) = AirWritten(last.before, last.x, last.y, last.z)

\* removeBlock in an ungenerated area has created the chunk
RemoveIsSetAirWitness ==
    /\ last.op = "removeBlock"
    /\ InRange(last.y)
    /\ KeyOf(last.x, last.z) \notin DOMAIN maps[last.before]
    /\ KeyOf(last.x, last.z) \in DOMAIN maps[chunks]
    /\ arrays[maps[chunks][KeyOf(last.x, last.z)]] = [len |-> ChunkLen, cells |-> EmptyFun]

(* C10. addChunk inserts or replaces in one step: after addChunk(cx, cz,   *)
(* data) with data of the right length, getBlock(cx*16 + lx, y, cz*16 +    *)
(* lz) returns data[lx + lz*16 + y*256] for every local coordinate,        *)
(* whether or not the chunk existed, and every other chunk is the object   *)
(* it was.                                                                 *)
AddChunkInsertsOrReplaces ==
    (last.op = "addChunk" /\ arrays[last.data].len = ChunkLen)
    => /\ last.error = ""
       /\ \A lx \in 0..15, lz \in 0..15, y \in {0, 1, 254, 255} :
             getBlock(last.x * 16 + lx, y, last.z * 16 + lz).ret
                = TypedArrayGet(arrays[last.data], lx + lz * 16 + y * 256)
       /\ DOMAIN maps[chunks] = DOMAIN maps[last.before] \cup {getChunkKey(last.x, last.z)}
       /\ \A k \in DOMAIN maps[last.before] \ {getChunkKey(last.x, last.z)} :
             maps[chunks][k] = maps[last.before][k]

\* addChunk has replaced a chunk by an array with other contents
AddChunkReplacesWitness ==
    /\ last.op = "addChunk"
    /\ arrays[last.data] = FullData
    /\ getChunkKey(last.x, last.z) \in DOMAIN maps[last.before]
    /\ ChunkView(last.before)[getChunkKey(last.x, last.z)] # FullData
    /\ getBlock(last.x * 16 + 15, 0, last.z * 16).ret = Some(3)

(* C11. Terrain normalization bound: for a noise source with samples in   *)
(* [0, 1] and maxHeight >= 0, the height h returned by getTerrainHeight    *)
(* satisfies 0 <= h <= maxHeight.                                          *)
TerrainNormalizationBound ==
    (terrain.pc = "done" /\ terrain.maxHeight >= 0)
        => /\ RLe(Rat(0, 1), terrain.height)
           /\ RLe(terrain.height, Rat(terrain.maxHeight, 1))

\* a height strictly between 0 and maxHeight computed from three different
\* samples, the larger ones in the weaker octaves
TerrainNormalizationWitness ==
    /\ terrain.pc = "done"
    /\ terrain.maxHeight = 64
    /\ terrain.x = 3 /\ terrain.z = 50
    /\ terrain.noise[<<Rat(3, 100), Rat(1, 2)>>] = Rat(0, 1)
    /\ terrain.noise[<<Rat(6, 100), Rat(1, 1)>>] = Rat(1, 1)
    /\ terrain.noise[<<Rat(12, 100), Rat(2, 1)>>] = Rat(1, 1)
    /\ terrain.height = Rat(192, 7)

(* C13. For every maxHeight <= 0, getTerrainHeight returns 0.              *)
NonPositiveMaxHeightIsZero ==
    (terrain.pc = "done" /\ terrain.maxHeight <= 0) => terrain.height = Rat(0, 1)

----------------------------------------------------------------------------
(* C14: chunk keys do not collide.  The key of the chunk written differs    *)
(* from the key of every other chunk coordinate, negative ones included,   *)
(* so the block written is read back at its own coordinate and a read at   *)
(* the same local position of any other chunk finds no chunk.              *)
ChunkKeysDoNotCollide ==
    last.op = "setBlock"
        => LET cx1 == worldToChunkX(last.x)
               cz1 == worldToChunkZ(last.z)
           IN /\ getBlock(last.x, last.y, last.z).ret = Some(last.type)
              /\ \A cx2 \in ChunkCoords, cz2 \in ChunkCoords :
                    <<cx2, cz2>> # <<cx1, cz1>>
                        => /\ getChunkKey(cx2, cz2) # getChunkKey(cx1, cz1)
                           /\ getBlock(cx2 * CHUNK_SIZE + KeyLocalX, last.y,
                                       cz2 * CHUNK_SIZE + KeyLocalZ).ret = Undefined

\* the chunk (-1, 11) has been written; (-11, 1), (1, 11) and (11, 1) are
\* among the coordinates it is compared with
ChunkKeysWitness ==
    /\ last.op = "setBlock"
    /\ worldToChunkX(last.x) = -1
    /\ worldToChunkZ(last.z) = 11
    /\ DOMAIN maps[chunks] = {<<"-", "1", ",", "1", "1">>}


----------------------------------------------------------------------------
(* C15: chunks are never destroyed.  Every call leaves in the chunk map    *)
(* every key that was in it, and a key enters the map only as the chunk of *)
(* an in-range setBlock / removeBlock or as the chunk of an addChunk.      *)
ChunksNeverDestroyed ==
    [][ /\ DOMAIN maps[chunks] \subseteq DOMAIN maps'[chunks']
        /\ \A key \in DOMAIN maps'[chunks'] \ DOMAIN maps[chunks] :
              \/ /\ last'.op \in {"setBlock", "removeBlock"}
                 /\ InRange(last'.y)
                 /\ key = KeyOf(last'.x, last'.z)
              \/ /\ last'.op = "addChunk"
                 /\ key = getChunkKey(last'.x, last'.z)
      ]_vars

\* a call has added a second chunk to a map that held one, which is still
\* there
ChunksNeverDestroyedWitness ==
    /\ last.op \in {"addChunk", "setBlock", "removeBlock"}
    /\ Cardinality(DOMAIN maps[last.before]) = 1
    /\ Cardinality(DOMAIN maps[chunks]) = 2
    /\ DOMAIN maps[last.before] \subseteq DOMAIN maps[chunks]

----------------------------------------------------------------------------
(* C16: setBlock changes exactly one cell.  A setBlock(x, y, z, id) with y *)
(* in range leaves every array object as it was, maps every key other than *)
(* the target's to the object it was mapped to, adds no key but the        *)
(* target's, gives the target chunk an array that differs from the earlier *)
(* one at the cell of (x, y, z) at most, and leaves what getBlock returns  *)
(* unchanged at every other coordinate whose chunk existed.                *)
SetBlockChangesOneCell ==
    [][ (last'.op = "setBlock" /\ InRange(last'.y))
          => LET key == KeyOf(last'.x, last'.z)
                 old == maps[chunks]
                 new == maps'[chunks']
             IN /\ \A id \in DOMAIN arrays : arrays'[id] = arrays[id]
                /\ DOMAIN new = DOMAIN old \cup {key}
                /\ \A k \in DOMAIN old \ {key} : new[k] = old[k]
                /\ key \in DOMAIN old
                      => /\ arrays'[new[key]].len = arrays[old[key]].len
                         /\ ClearCell(arrays'[new[key]], CellOf(last'.x, last'.y, last'.z))
                              = ClearCell(arrays[old[key]], CellOf(last'.x, last'.y, last'.z))
                /\ \A x \in XS, y \in YS, z \in ZS :
                      (<<x, y, z>> # <<last'.x, last'.y, last'.z>>
                          /\ KeyOf(x, z) \in DOMAIN old)
                        => getBlock(x, y, z).ret' = getBlock(x, y, z).ret
      ]_vars

\* setBlock has written a block into a chunk that held a block in another
\* cell, which is still there
SetBlockChangesOneCellWitness ==
    /\ last.op = "setBlock"
    /\ InRange(last.y)
    /\ last.type % 256 # 0
    /\ KeyOf(last.x, last.z) \in DOMAIN maps[last.before]
    /\ \E i \in DOMAIN arrays[maps[last.before][KeyOf(last.x, last.z)]].cells :
          /\ i # CellOf(last.x, last.y, last.z)
          /\ TypedArrayGet(arrays[maps[chunks][KeyOf(last.x, last.z)]], i)
               = TypedArrayGet(arrays[maps[last.before][KeyOf(last.x, last.z)]], i)
          /\ TypedArrayGet(arrays[maps[chunks][KeyOf(last.x, last.z)]], i) # Some(0)
    /\ TypedArrayGet(arrays[maps[chunks][KeyOf(last.x, last.z)]],
                     CellOf(last.x, last.y, last.z)) = Some(last.type % 256)

----------------------------------------------------------------------------
(* C17: the seed is fixed at store creation.  No call changes the seed,    *)
(* and setPlayerPosition changes playerPosition only: the chunk map, the   *)
(* arrays and the seed are as they were.                                   *)
SeedIsFixed ==
    [][ /\ seed' = seed
        /\ last'.op = "setPlayerPosition"
              => /\ UNCHANGED <<arrays, maps, chunks, seed>>
                 /\ playerPosition' = <<last'.x, last'.y, last'.z>>
      ]_vars

\* setPlayerPosition has been called on a store that holds a chunk: the
\* position is the new one, the seed and the chunk are still there
SeedIsFixedWitness ==
    /\ last.op = "setPlayerPosition"
    /\ playerPosition = <<1, 70, -3>>
    /\ seed \in Seeds
    /\ last.before = chunks
    /\ DOMAIN maps[chunks] # {}

----------------------------------------------------------------------------
(* C18: fixed chunk shape.  Every array in the chunk map has length         *)
(* CHUNK_SIZE * CHUNK_SIZE * CHUNK_HEIGHT, and a getBlock with y in range   *)
(* in a chunk of the map returns a block id, never undefined.              *)
FixedChunkShape ==
    /\ \A key \in DOMAIN maps[chunks] : arrays[maps[chunks][key]].len = ChunkLen
    /\ (last.op = "getBlock" /\ InRange(last.y)
            /\ KeyOf(last.x, last.z) \in DOMAIN maps[chunks])
          => ret # Undefined

----------------------------------------------------------------------------
(* Vocabulary of the inventory properties *)

\* total count of the items of a type over the slots s
RECURSIVE TotalFrom(_, _, _)
TotalFrom(s, type, i) ==
    IF i >= ArrayLength(s) THEN 0
    ELSE (IF s[i].type = type THEN s[i].count ELSE 0) + TotalFrom(s, type, i + 1)

TotalOf(s, type) == TotalFrom(s, type, 0)

(* C19: addItem(type, count) with count >= 1 returns true only when all    *)
(* count items were stored: the total count of the type over the slots has *)
(* grown by exactly count; when it returns false the slots are unchanged.  *)
AddItemAllOrNothing ==
    [][ (invLast'.op = "addItem" /\ invLast'.count >= 1)
          => /\ invRet' = Some(TRUE)
                  => TotalOf(slots', invLast'.type)
                       = TotalOf(slots, invLast'.type) + invLast'.count
             /\ invRet' = Some(FALSE) => slots' = slots
      ]_vars

(* C20, as first stated: removeItem(slotIndex, count) with count >= 0       *)
(* returns min(count, slot.count), the number of items removed; the        *)
(* slot's count decreases by the value returned, the slot's type is ''     *)
(* exactly when its count has reached 0, every other slot is as it was;    *)
(* for an index out of range or an empty slot it returns 0 and the slots   *)
(* are as they were.                                                       *)
RemoveItemTypeExactlyWhenZero ==
    [][ (invLast'.op = "removeItem" /\ invLast'.count >= 0)
          => LET i == invLast'.slot
                 n == invLast'.count
             IN IF i \in 0..(TOTAL_SLOTS - 1) /\ slots[i].count # 0
                THEN LET removed == IF n < slots[i].count THEN n ELSE slots[i].count
                     IN /\ invRet' = Some(removed)
                        /\ slots'[i].count = slots[i].count - removed
                        /\ slots'[i].type = "" <=> slots'[i].count = 0
                        /\ \A j \in DOMAIN slots \ {i} : slots'[j] = slots[j]
                        /\ DOMAIN slots' = DOMAIN slots
                ELSE /\ invRet' = Some(0)
                     /\ slots' = slots
      ]_vars

(* C20, amended: removeItem(slotIndex, count) with count >= 0 returns       *)
(* min(count, slot.count), the number of items removed: the slot's count   *)
(* decreases by the value returned, its type is '' if its count has        *)
(* reached 0 and is the type it had otherwise (which is '' for a slot that *)
(* addItem('', n) filled), every other slot is as it was; for an index out *)
(* of range or an empty slot it returns 0 and the slots are as they were.  *)
(* selectedSlot and isOpen stay.                                           *)
RemoveItemReturnsRemoved ==
    [][ (invLast'.op = "removeItem" /\ invLast'.count >= 0)
          => LET i == invLast'.slot
                 n == invLast'.count
             IN /\ UNCHANGED <<selectedSlot, isOpen>>
                /\ IF i \in 0..(TOTAL_SLOTS - 1) /\ slots[i].count # 0
                   THEN LET removed == IF n < slots[i].count THEN n ELSE slots[i].count
                        IN /\ invRet' = Some(removed)
                           /\ slots'[i].count = slots[i].count - removed
                           /\ slots'[i].type =
                                 IF slots'[i].count = 0 THEN "" ELSE slots[i].type
                           /\ \A j \in DOMAIN slots \ {i} : slots'[j] = slots[j]
                           /\ DOMAIN slots' = DOMAIN slots
                   ELSE /\ invRet' = Some(0)
                        /\ slots' = slots
      ]_vars

\* removeItem(8, 100) has emptied the slot of 16 water: 16 is returned and
\* the slot is the empty slot
RemoveItemWitness ==
    /\ invLast = InvCall("removeItem", "", 8, 100)
    /\ invRet = Some(16)
    /\ slots[8] = [type |-> "", count |-> 0]
    /\ slots[0] = [type |-> "grass", count |-> 64]

----------------------------------------------------------------------------
(* Vocabulary of the 9-slot inventory properties *)

\* total count of the blocks of a type over the slots s
RECURSIVE BlocksFrom(_, _, _)
BlocksFrom(s, type, i) ==
    IF i >= ArrayLength(s) THEN 0
    ELSE (IF s[i].blockType = Str(type) THEN s[i].count ELSE 0) + BlocksFrom(s, type, i + 1)

BlocksOf(s, type) == BlocksFrom(s, type, 0)

\* the least element of a non-empty set of indexes
FirstOf(indexes) == CHOOSE i \in indexes : \A j \in indexes : i <= j

(* C21: addBlock(type) adds one block, stack first.  If a slot holds the    *)
(* type with count < 64 the first such slot grows by 1; otherwise the      *)
(* first empty slot becomes {type, 1}; otherwise false is returned and     *)
(* slots and hotbar are as they were.  True is returned exactly when the   *)
(* total count of the type has grown by 1, and no other slot changes.      *)
AddBlockStackFirst ==
    [][ hotLast'.op = "addBlock"
          => LET type == hotLast'.type
                 stacks == {i \in DOMAIN hotSlots :
                               hotSlots[i].blockType = Str(type) /\ hotSlots[i].count < 64}
                 empties == {i \in DOMAIN hotSlots : hotSlots[i].blockType = Null}
             IN /\ IF stacks # {}
                   THEN /\ hotSlots' = [hotSlots EXCEPT ![FirstOf(stacks)] =
                                           [blockType |-> Str(type), count |-> @.count + 1]]
                        /\ hotRet' = Some(TRUE)
                   ELSE IF empties # {}
                   THEN /\ hotSlots' = [hotSlots EXCEPT ![FirstOf(empties)] =
                                           [blockType |-> Str(type), count |-> 1]]
                        /\ hotRet' = Some(TRUE)
                   ELSE /\ hotSlots' = hotSlots
                        /\ hotbar' = hotbar
                        /\ hotRet' = Some(FALSE)
                /\ hotRet' = Some(TRUE)
                      <=> BlocksOf(hotSlots', type) = BlocksOf(hotSlots, type) + 1
                /\ UNCHANGED hotSelectedSlot
      ]_vars

\* addBlock has stacked a block onto a stack that lies after an empty slot
AddBlockStackFirstWitness ==
    /\ hotLast = HotCall("addBlock", "WOOD", 0)
    /\ hotRet = Some(TRUE)
    /\ hotSlots[1] = createEmptySlot
    /\ hotSlots[2] = createSlot("WOOD", 64)
    /\ hotSlots[3] = createSlot("WOOD", 2)

(* C22: removeBlock(type) of the 9-slot store takes one block from the      *)
(* first slot holding the type and empties the slot (blockType null,       *)
(* count 0) when its count reaches 0; it returns true exactly when a block *)
(* was removed, and false, with slots and hotbar as they were, when no     *)
(* slot holds the type.                                                    *)
RemoveBlockFirstSlot ==
    [][ hotLast'.op = "removeBlock"
          => LET type == hotLast'.type
                 holding == {i \in DOMAIN hotSlots : hotSlots[i].blockType = Str(type)}
             IN /\ IF holding # {}
                   THEN LET i == FirstOf(holding)
                        IN /\ hotSlots' = [hotSlots EXCEPT ![i] =
                                              IF @.count - 1 = 0
                                              THEN [blockType |-> Null, count |-> 0]
                                              ELSE [blockType |-> Str(type),
                                                    count |-> @.count - 1]]
                           /\ hotRet' = Some(TRUE)
                   ELSE /\ hotSlots' = hotSlots
                        /\ hotbar' = hotbar
                        /\ hotRet' = Some(FALSE)
                /\ hotRet' = Some(TRUE)
                      <=> BlocksOf(hotSlots', type) = BlocksOf(hotSlots, type) - 1
                /\ UNCHANGED hotSelectedSlot
      ]_vars

\* removeBlock has taken a block from the first of two stacks of wood
RemoveBlockFirstSlotWitness ==
    /\ hotLast = HotCall("removeBlock", "WOOD", 0)
    /\ hotRet = Some(TRUE)
    /\ hotSlots[2] = createSlot("WOOD", 63)
    /\ hotSlots[3] = createSlot("WOOD", 1)

(* C28: in the 9-slot store hotbar and slots have the same contents:        *)
(* hotbar[i] equals slots[i], block type and count, for every i in 0..8,   *)
(* in the initial state and after any selectSlot / addBlock / removeBlock. *)
HotbarMirrorsSlots ==
    /\ DOMAIN hotbar = 0..8
    /\ DOMAIN hotSlots = 0..8
    /\ \A i \in 0..8 :
          /\ hotbar[i].blockType = hotSlots[i].blockType
          /\ hotbar[i].count = hotSlots[i].count

\* addBlock has put a block of a new type into the initial inventory, and
\* the hotbar shows it
HotbarMirrorsSlotsWitness ==
    /\ hotLast = HotCall("addBlock", "WOOD", 0)
    /\ hotSlots[0] = createSlot("DIRT", 64)
    /\ hotSlots[1] = createSlot("STONE", 32)
    /\ hotSlots[2] = createSlot("WOOD", 1)
    /\ hotbar[2] = createSlot("WOOD", 1)

(* C29: slot well-formedness in the 9-slot store.  There are exactly 9      *)
(* slots, and every slot is empty (blockType null, count 0) or holds a     *)
(* block type with 1 <= count <= 64.                                       *)
HotSlotsWellFormed ==
    /\ DOMAIN hotSlots = 0..8
    /\ \A i \in DOMAIN hotSlots :
          \/ hotSlots[i].blockType = Null /\ hotSlots[i].count = 0
          \/ /\ hotSlots[i].blockType # Null
             /\ hotSlots[i].count >= 1
             /\ hotSlots[i].count <= 64

\* removeBlock has taken the last block of a stack, leaving the empty slot,
\* next to a stack that addBlock has added a block to
HotSlotsWellFormedWitness ==
    /\ hotLast = HotCall("removeBlock", "DIRT", 0)
    /\ hotRet = Some(TRUE)
    /\ hotSlots[0] = createEmptySlot
    /\ hotSlots[1] = createSlot("STONE", 33)

----------------------------------------------------------------------------
(* C23: in-chunk index safety.  For a setBlock(x, y, z, id) with            *)
(* 0 <= y < CHUNK_HEIGHT the index localX + localZ * 16 + y * 256 lies in  *)
(* 0 .. CHUNK_SIZE * CHUNK_SIZE * CHUNK_HEIGHT - 1, it is the one cell of  *)
(* the chunk that is written and the cell getBlock reads, and every other  *)
(* local coordinate of the chunk has another index; for y out of range no  *)
(* array is made or accessed.                                              *)
InChunkIndexSafety ==
    last.op = "setBlock"
        => IF InRange(last.y)
           THEN LET localX == worldToLocal(last.x)
                    localZ == worldToLocal(last.z)
                    index == getBlockIndex(localX, last.y, localZ)
                IN /\ index = localX + localZ * 16 + last.y * 256
                   /\ index >= 0
                   /\ index < CHUNK_SIZE * CHUNK_SIZE * CHUNK_HEIGHT
                   /\ DOMAIN arrays[maps[chunks][KeyOf(last.x, last.z)]].cells = {index}
                   /\ getBlock(last.x, last.y, last.z).ret = Some(last.type)
                   /\ \A lx \in 0..(CHUNK_SIZE - 1), lz \in 0..(CHUNK_SIZE - 1),
                         y \in {v \in CellYS : InRange(v)} :
                         <<lx, y, lz>> # <<localX, last.y, localZ>>
                             => getBlockIndex(lx, y, lz) # index
           ELSE arrays = <<>> /\ chunks = last.before

\* a block has been written at a negative x and z in the top layer: the
\* last cell of the chunk
InChunkIndexWitness ==
    /\ last.op = "setBlock"
    /\ last.x = -1
    /\ last.y = CHUNK_HEIGHT - 1
    /\ last.z = -17
    /\ DOMAIN arrays[1].cells = {CHUNK_SIZE * CHUNK_SIZE * CHUNK_HEIGHT - 1}

(* C24: constant agreement.  The chunk span and the vertical limit of the   *)
(* store are the exported CHUNK_SIZE and WORLD_HEIGHT: a setBlock at       *)
(* y = WORLD_HEIGHT changes nothing and a getBlock at that y returns       *)
(* undefined.                                                              *)
ConstantAgreement ==
    /\ CHUNK_SIZE = EXPORTED_CHUNK_SIZE
    /\ (last.op = "setBlock" /\ last.y = WORLD_HEIGHT)
          => /\ chunks = last.before
             /\ arrays = <<>>
             /\ getBlock(last.x, WORLD_HEIGHT, last.z).ret = Undefined

(* C25: block ids are stored in 8 bits.  A setBlock(x, y, z, id) with y in   *)
(* range, for any integer id, followed by getBlock(x, y, z), returns       *)
(* id mod 256: an id in 0..255 as it is, any other id wrapped.             *)
EightBitBlockIds ==
    (last.op = "setBlock" /\ InRange(last.y))
        => getBlock(last.x, last.y, last.z).ret = Some(last.type % 256)

----------------------------------------------------------------------------
(* C26: stack-size invariant of the 36-slot store.  From the initial        *)
(* inventory, after any addItem and removeItem calls with count >= 0 and   *)
(* clearInventory calls, there are exactly 36 slots and the count of every *)
(* slot is in 0 .. MAX_STACK_SIZE = 0 .. 64.                               *)
StackSizeInvariant ==
    /\ DOMAIN slots = 0..35
    /\ \A i \in DOMAIN slots : slots[i].count >= 0 /\ slots[i].count <= 64

\* addItem("water", 50) has filled the stack of 16 to 64 and put the other
\* 2 into the first empty slot
StackSizeWitness ==
    /\ invLast = InvCall("addItem", "water", 0, 50)
    /\ invRet = Some(TRUE)
    /\ slots[8] = [type |-> "water", count |-> 64]
    /\ slots[9] = [type |-> "water", count |-> 2]

----------------------------------------------------------------------------
(* C27: the selected slot stays on the hotbar.  In each of the three        *)
(* inventory stores selectedSlot is in 0..8 after any calls with integer   *)
(* arguments.  In the 36-slot store (setSelectedSlot) and the indexed      *)
(* store (selectSlot) an index out of range leaves selectedSlot as it was  *)
(* and an index in range is stored; in the 9-slot store selectSlot(i)      *)
(* stores max(0, min(8, i)).                                               *)
SelectedSlotOnHotbar ==
    /\ [](/\ selectedSlot \in 0..8
          /\ hotSelectedSlot \in 0..8
          /\ barSelectedSlot \in 0..8)
    /\ [][ /\ invLast'.op = "setSelectedSlot"
              => selectedSlot' = IF invLast'.slot \in 0..8 THEN invLast'.slot
                                 ELSE selectedSlot
           /\ barLast'.op = "selectSlot"
              => barSelectedSlot' = IF barLast'.index \in 0..8 THEN barLast'.index
                                    ELSE barSelectedSlot
           /\ hotLast'.op = "selectSlot"
              => hotSelectedSlot' = IF hotLast'.index < 0 THEN 0
                                    ELSE IF hotLast'.index > 8 THEN 8
                                    ELSE hotLast'.index
      ]_vars

\* each store has been given an index out of range after one in range: the
\* two validating stores kept the earlier selection, the third clamped
SelectedSlotWitness ==
    /\ invLast.op = "setSelectedSlot" /\ invLast.slot = 9 /\ selectedSlot = 3
    /\ barLast.op = "selectSlot" /\ barLast.index = -1 /\ barSelectedSlot = 4
    /\ hotLast.op = "selectSlot" /\ hotLast.index = 100 /\ hotSelectedSlot = 8

(* C30: empty-slot consistency in the indexed hotbar store.  After any      *)
(* addToSlot(index, blockType, count) with count >= 0 and removeFromSlot   *)
(* (index) calls, a slot has blockType null if and only if its count is 0  *)
(* and no count is negative; removeFromSlot on a slot of count 0 changes   *)
(* the contents of no slot.                                                *)
EmptySlotConsistency ==
    /\ [](\A i \in DOMAIN barSlots :
            /\ barSlots[i].blockType = Null <=> barSlots[i].count = 0
            /\ barSlots[i].count >= 0)
    /\ [][ (/\ barLast'.op = "removeFromSlot"
            /\ barLast'.index \in DOMAIN barSlots
            /\ barSlots[barLast'.index].count = 0)
              => barSlots' = barSlots
      ]_vars

(* C31: addToSlot(index, blockType, count) changes a slot only when index  *)
(* is in 0..8 and the slot is empty (blockType null) or holds blockType:   *)
(* an empty slot becomes {blockType, count}, the count of a matching slot  *)
(* grows by count; when index is out of range or the slot holds another    *)
(* block type the nine slots and selectedSlot are as they were.  No call   *)
(* of the store changes a slot other than slots[index].                    *)
AddToSlotFrame ==
    [][ /\ barLast'.op = "addToSlot"
              => LET i == barLast'.index
                     t == barLast'.blockType
                     n == barLast'.count
                 IN /\ barSelectedSlot' = barSelectedSlot
                    /\ DOMAIN barSlots' = 0..8
                    /\ IF i \in 0..8 /\ barSlots[i].blockType = Null
                       THEN barSlots'[i] = [blockType |-> Str(t), count |-> n]
                       ELSE IF i \in 0..8 /\ barSlots[i].blockType = Str(t)
                       THEN barSlots'[i] = [blockType |-> Str(t),
                                            count |-> barSlots[i].count + n]
                       ELSE barSlots' = barSlots
        /\ barLast'.op \in {"addToSlot", "removeFromSlot"}
              => \A j \in (0..8) \ {barLast'.index} : barSlots'[j] = barSlots[j]
        /\ barLast'.op = "selectSlot" => barSlots' = barSlots
      ]_vars

\* addToSlot(0, "dirt", 5) has filled slot 0, which held grass and had been
\* emptied, and the slot that holds dirt from the start is as it was
AddToSlotFrameWitness ==
    /\ barLast = BarCall("addToSlot", 0, "dirt", 5)
    /\ barSlots[0] = [blockType |-> Str("dirt"), count |-> 5]
    /\ barSlots[1] = [blockType |-> Str("dirt"), count |-> 64]

====
